---- MODULE Spec2Model ----
(***************************************************************************)
(* Model of src/videos.py: read_instance, build_model, write_solution and  *)
(* the pipeline of main().                                                  *)
(*                                                                          *)
(* Python dicts are insertion-ordered: they are modelled as sequences of    *)
(* <<key, value>> pairs with unique keys.  Python lists are sequences.      *)
(* Values of y[v,c].X are counted in tenths (0 is 0.0, 10 is 1.0).          *)
(* The instance file is structurally well formed (the line counts match     *)
(* the header, so the assert on len(video_sizes) holds); its numbers are    *)
(* integers of small sets, indices out of range included.                   *)
(***************************************************************************)
EXTENDS Integers, Sequences, FiniteSets

VARIABLES pc, file, data, model, err, mps, solCount, yX, out

vars == <<pc, file, data, model, err, mps, solCount, yX, out>>

(***************************************************************************)
(* Bounds of the input files.                                               *)
(***************************************************************************)
MaxV == 2
MaxC == 2
MaxE == 1
MaxK == 2
MaxR == 2
MainMaxK == 1
MainMaxR == 1

Sizes == {1, 2}
Capacities == {-1, 2}
UnitSizes == {1}
UnitCapacities == {2}
DcLatencies == {2, 3}
CacheLatencies == {1, 3}
Counts == {-1, 1}
YValues == {0, 5, 6, 10}

(* the threshold 0.5 of write_solution, in tenths *)
Threshold == 5

(* y[v,c].X when the solver holds no solution: the attribute is unavailable *)
NoValue == -1

(***************************************************************************)
(* Helpers: sums, ranges, ordered dicts.                                    *)
(***************************************************************************)
RECURSIVE SumSeq(_)
SumSeq(s) == IF s = <<>> THEN 0 ELSE Head(s) + SumSeq(Tail(s))

(* range(n) as a list *)
Range(n) == [i \in 1..n |-> i - 1]

SeqsUpTo(S, n) == UNION {[1..k -> S] : k \in 0..n}

DictHas(d, k) == \E i \in 1..Len(d) : d[i][1] = k

DictGet(d, k, default) ==
    IF DictHas(d, k) THEN d[CHOOSE i \in 1..Len(d) : d[i][1] = k][2] ELSE default

(* d[k] = val: an existing key keeps its position, a new key goes last *)
DictPut(d, k, val) ==
    IF DictHas(d, k)
    THEN [i \in 1..Len(d) |-> IF d[i][1] = k THEN <<k, val>> ELSE d[i]]
    ELSE Append(d, <<k, val>>)

AsMap(d) == {d[i] : i \in 1..Len(d)}

(***************************************************************************)
(* The input files.                                                         *)
(***************************************************************************)
EndpointLines(C, maxK) ==
    [dc : DcLatencies, caches : SeqsUpTo((0..C) \X CacheLatencies, maxK)]

RequestLines(V, E) == (0..V) \X (-1..E) \X Counts

(* the files of at most maxK caches an endpoint and maxR request records *)
IsFile(f, maxK, maxR, sizes, caps) ==
    \E V \in 0..MaxV, E \in 0..MaxE, C \in 0..MaxC, X \in caps :
       \E s \in [1..V -> sizes],
          ep \in [1..E -> EndpointLines(C, maxK)],
          r \in SeqsUpTo(RequestLines(V, E), maxR) :
          f = [V |-> V, E |-> E, C |-> C, X |-> X, sizes |-> s, eps |-> ep, reqs |-> r]

EmptyFile ==
    [V |-> 0, E |-> 0, C |-> 0, X |-> 0, sizes |-> <<>>, eps |-> <<>>, reqs |-> <<>>]

(***************************************************************************)
(* read_instance                                                            *)
(***************************************************************************)
RECURSIVE ReadCaches(_, _)
ReadCaches(lines, d) ==
    IF lines = <<>> THEN d
    ELSE ReadCaches(Tail(lines), DictPut(d, Head(lines)[1], Head(lines)[2]))

ReadEndpoint(ep) ==
    [dc_latency |-> ep.dc, cache_latencies |-> ReadCaches(ep.caches, <<>>)]

AccumulateOverwrite(old, n_req) == n_req

Accumulate(old, n_req) == old + n_req

RECURSIVE ReadRequests(_, _)
ReadRequests(recs, d) ==
    IF recs = <<>> THEN d
    ELSE LET v_id == Head(recs)[1]
             e_id == Head(recs)[2]
             n_req == Head(recs)[3]
             key == <<e_id, v_id>>
         IN ReadRequests(Tail(recs),
                         DictPut(d, key, Accumulate(DictGet(d, key, 0), n_req)))

read_instance(f) ==
    [V |-> f.V, E |-> f.E, R |-> Len(f.reqs), C |-> f.C, X |-> f.X,
     video_sizes |-> f.sizes,
     endpoints |-> [i \in 1..f.E |-> ReadEndpoint(f.eps[i])],
     requests |-> ReadRequests(f.reqs, <<>>)]

EmptyData ==
    [V |-> 0, E |-> 0, R |-> 0, C |-> 0, X |-> 0,
     video_sizes |-> <<>>, endpoints |-> <<>>, requests |-> <<>>]

(***************************************************************************)
(* build_model                                                              *)
(***************************************************************************)
(* model.addVars(V, C): one y per pair of range(V) x range(C) *)
YKeys(V, C) == (0..(V - 1)) \X (0..(C - 1))

(* list[e] of Python: a negative index counts from the end *)
IndexOK(list, e) == -Len(list) <= e /\ e < Len(list)

ListAt(list, e) == list[IF e < 0 THEN Len(list) + e + 1 ELSE e + 1]

SkipNegativeOnly(save) == save < 0

Skip(save) == save <= 0

GainCountOnly(n_req, save) == n_req

Gain(n_req, save) == n_req * save

AppendCacheOverwrite(cache_list, c) == <<c>>

(* ev_to_caches.setdefault((e, v), []).append(c) *)
AppendCache(cache_list, c) == Append(cache_list, c)

EmptyGains == [z_keys |-> <<>>, z_gain |-> <<>>, ev_to_caches |-> <<>>]

(* the inner loop of the first loop: the caches of one (e, v) *)
RECURSIVE CacheLoop(_, _, _, _, _, _)
CacheLoop(e, v, n_req, dc_lat, items, acc) ==
    IF items = <<>> THEN acc
    ELSE LET c == Head(items)[1]
             lat_ec == Head(items)[2]
             save == dc_lat - lat_ec
             key == <<e, v, c>>
         IN IF Skip(save)
            THEN CacheLoop(e, v, n_req, dc_lat, Tail(items), acc)
            ELSE CacheLoop(e, v, n_req, dc_lat, Tail(items),
                   [z_keys |-> Append(acc.z_keys, key),
                    z_gain |-> DictPut(acc.z_gain, key, Gain(n_req, save)),
                    ev_to_caches |->
                        DictPut(acc.ev_to_caches, <<e, v>>,
                                AppendCache(DictGet(acc.ev_to_caches, <<e, v>>, <<>>), c))])

(* the first loop: the items of requests, in insertion order *)
RECURSIVE RequestLoop(_, _, _)
RequestLoop(items, endpoints, acc) ==
    IF items = <<>> THEN acc
    ELSE LET e == Head(items)[1][1]
             v == Head(items)[1][2]
             n_req == Head(items)[2]
             ep == ListAt(endpoints, e)
         IN RequestLoop(Tail(items), endpoints,
                        CacheLoop(e, v, n_req, ep.dc_latency, ep.cache_latencies, acc))

CapConstrSkipLast(c, V, video_sizes, X) ==
    [cache |-> c,
     terms |-> [i \in 1..(V - 1) |-> <<video_sizes[i], <<i - 1, c>>>>],
     rhs |-> X]

(* quicksum(video_sizes[v] * y[v, c] for v in videos) <= X *)
CapConstr(c, V, video_sizes, X) ==
    [cache |-> c,
     terms |-> [i \in 1..V |-> <<video_sizes[i], <<i - 1, c>>>>],
     rhs |-> X]

LinkConstrFirstCache(key) == [z |-> key, y |-> <<key[2], 0>>]

(* z[e, v, c] <= y[v, c] *)
LinkConstr(key) == [z |-> key, y |-> <<key[2], key[3]>>]

(* quicksum(z[e, v, c] for c in cache_list) <= 1 *)
UniqueConstr(item) == [ev |-> item[1], caches |-> item[2]]

EmptyModel ==
    [yKeys |-> {}, zKeys |-> <<>>, cap |-> <<>>, link |-> <<>>,
     unique |-> <<>>, obj |-> <<>>]

(* the result of build_model: the exception it raises, or the model *)
build_model(d) ==
    IF \E i \in 1..Len(d.requests) : ~IndexOK(d.endpoints, d.requests[i][1][1])
    THEN [err |-> "IndexError", model |-> EmptyModel]
    ELSE LET g == RequestLoop(d.requests, d.endpoints, EmptyGains)
             y == YKeys(d.V, d.C)
             link == [i \in 1..Len(g.z_keys) |-> LinkConstr(g.z_keys[i])]
         IN IF \E i \in 1..Len(link) : link[i].y \notin y
            THEN [err |-> "KeyError", model |-> EmptyModel]
            ELSE [err |-> "none",
                  model |->
                    [yKeys |-> y,
                     zKeys |-> g.z_keys,
                     cap |-> [i \in 1..d.C |-> CapConstr(i - 1, d.V, d.video_sizes, d.X)],
                     link |-> link,
                     unique |-> [i \in 1..Len(g.ev_to_caches) |->
                                    UniqueConstr(g.ev_to_caches[i])],
                     obj |-> [i \in 1..Len(g.z_keys) |->
                                 <<DictGet(g.z_gain, g.z_keys[i], 0), g.z_keys[i]>>]]]

(***************************************************************************)
(* The solver: the boolean assignments the built constraints admit.         *)
(***************************************************************************)
ZKeySet(m) == {m.zKeys[i] : i \in 1..Len(m.zKeys)}

Assignments(m) == [y : [m.yKeys -> 0..1], z : [ZKeySet(m) -> 0..1]]

CapHolds(a, con) ==
    SumSeq([i \in 1..Len(con.terms) |-> con.terms[i][1] * a.y[con.terms[i][2]]]) <= con.rhs

LinkHolds(a, con) == a.z[con.z] <= a.y[con.y]

UniqueHolds(a, con) ==
    SumSeq([i \in 1..Len(con.caches) |->
               a.z[<<con.ev[1], con.ev[2], con.caches[i]>>]]) <= 1

Feasible(m, a) ==
    /\ \A i \in 1..Len(m.cap) : CapHolds(a, m.cap[i])
    /\ \A i \in 1..Len(m.link) : LinkHolds(a, m.link[i])
    /\ \A i \in 1..Len(m.unique) : UniqueHolds(a, m.unique[i])

(***************************************************************************)
(* write_solution                                                           *)
(***************************************************************************)
StoredAtHalf(x) == x >= Threshold

Stored(x) == x > Threshold

(* cache_to_videos, then the lines of the file, each a list of numbers *)
RECURSIVE CacheToVideos(_, _, _, _)
CacheToVideos(caches, V, y, d) ==
    IF caches = <<>> THEN d
    ELSE LET c == Head(caches)
             IsIn(v) == Stored(y[<<v, c>>])
             vids == SelectSeq(Range(V), IsIn)
         IN CacheToVideos(Tail(caches), V, y,
                          IF vids # <<>> THEN DictPut(d, c, vids) ELSE d)

write_solution(y, d) ==
    LET cache_to_videos == CacheToVideos(Range(d.C), d.V, y, <<>>)
    IN <<<<Len(cache_to_videos)>>>> \o
       [i \in 1..Len(cache_to_videos) |->
           <<cache_to_videos[i][1]>> \o cache_to_videos[i][2]]

NoFile == [exists |-> FALSE, lines |-> <<>>]

(***************************************************************************)
(* main                                                                     *)
(***************************************************************************)
HasSolutionAlways(n) == TRUE

(* the test of main after optimize: SolCount == 0 returns *)
HasSolution(n) == n # 0

StartWith(maxK, maxR, sizes, caps) ==
    /\ pc = "start"
    /\ IsFile(file, maxK, maxR, sizes, caps)
    /\ data = EmptyData
    /\ model = EmptyModel
    /\ err = "none"
    /\ mps = FALSE
    /\ solCount = 0
    /\ yX = <<>>
    /\ out = NoFile

Init == StartWith(MainMaxK, MainMaxR, Sizes, Capacities)

ReadInstance ==
    /\ pc = "start"
    /\ data' = read_instance(file)
    /\ pc' = "read"
    /\ UNCHANGED <<file, model, err, mps, solCount, yX, out>>

BuildModel ==
    /\ pc = "read"
    /\ LET r == build_model(data)
       IN /\ err' = r.err
          /\ model' = r.model
          /\ pc' = IF r.err = "none" THEN "built" ELSE "error"
    /\ UNCHANGED <<file, data, mps, solCount, yX, out>>

(* model.write("videos.mps") *)
WriteMps ==
    /\ pc = "built"
    /\ mps' = TRUE
    /\ pc' = "exported"
    /\ UNCHANGED <<file, data, model, err, solCount, yX, out>>

(* model.optimize(): some assignment the constraints admit, or none *)
Optimize ==
    /\ pc = "exported"
    /\ IF \E a \in Assignments(model) : Feasible(model, a)
       THEN /\ solCount' = 1
            /\ \E a \in Assignments(model) :
                  /\ Feasible(model, a)
                  /\ yX' = [k \in model.yKeys |-> 10 * a.y[k]]
       ELSE /\ solCount' = 0
            /\ yX' = [k \in model.yKeys |-> NoValue]
    /\ pc' = "solved"
    /\ UNCHANGED <<file, data, model, err, mps, out>>

ReturnNoSolution ==
    /\ pc = "solved"
    /\ ~HasSolution(solCount)
    /\ pc' = "done"
    /\ UNCHANGED <<file, data, model, err, mps, solCount, yX, out>>

WriteSolution ==
    /\ pc = "solved"
    /\ HasSolution(solCount)
    /\ IF \E k \in DOMAIN yX : yX[k] = NoValue
       THEN /\ err' = "AttributeError"
            /\ pc' = "error"
            /\ out' = out
       ELSE /\ out' = [exists |-> TRUE, lines |-> write_solution(yX, data)]
            /\ pc' = "done"
            /\ err' = err
    /\ UNCHANGED <<file, data, model, mps, solCount, yX>>

Next ==
    \/ ReadInstance
    \/ BuildModel
    \/ WriteMps
    \/ Optimize
    \/ ReturnNoSolution
    \/ WriteSolution

Spec == Init /\ [][Next]_vars

(* read_instance and build_model alone, on the larger files *)
InitFormulation == StartWith(MaxK, MaxR, UnitSizes, UnitCapacities)

NextFormulation ==
    \/ ReadInstance
    \/ BuildModel

SpecFormulation == InitFormulation /\ [][NextFormulation]_vars

(* write_solution alone, on every y of YValues *)
InitExtract ==
    /\ pc = "solved"
    /\ file = EmptyFile
    /\ \E V \in 0..MaxV, C \in 0..MaxC :
          /\ data = [EmptyData EXCEPT !.V = V, !.C = C]
          /\ yX \in [YKeys(V, C) -> YValues]
    /\ model = EmptyModel
    /\ err = "none"
    /\ mps = FALSE
    /\ solCount = 1
    /\ out = NoFile

NextExtract == WriteSolution

SpecExtract == InitExtract /\ [][NextExtract]_vars

(***************************************************************************)
(* Properties of read_instance and build_model (SpecFormulation).           *)
(***************************************************************************)
Triples == (-1..MaxE) \X (0..MaxV) \X (0..MaxC)

Reachable(e, c) ==
    /\ IndexOK(data.endpoints, e)
    /\ DictHas(ListAt(data.endpoints, e).cache_latencies, c)

SaveOf(e, c) ==
    ListAt(data.endpoints, e).dc_latency
        - DictGet(ListAt(data.endpoints, e).cache_latencies, c, 0)

InZ(t) == \E i \in 1..Len(model.zKeys) : model.zKeys[i] = t

InLink(t) == \E i \in 1..Len(model.link) : model.link[i].z = t

InUnique(t) ==
    \E i \in 1..Len(model.unique) :
        /\ model.unique[i].ev = <<t[1], t[2]>>
        /\ \E j \in 1..Len(model.unique[i].caches) : model.unique[i].caches[j] = t[3]

InObjective(t) == \E i \in 1..Len(model.obj) : model.obj[i][2] = t

Survives(t) == Reachable(t[1], t[3]) /\ SaveOf(t[1], t[3]) > 0

(* C1: in the built model a triple (e,v,c) has a z variable, a linking      *)
(* constraint, a place in a single-source constraint or an objective term   *)
(* only if c is in the cache_latencies of endpoint e and                    *)
(* dc_latency(e) - cache_latencies(e)[c] > 0.                               *)
C1_Pruning ==
    pc = "built" =>
        \A t \in Triples :
            (InZ(t) \/ InLink(t) \/ InUnique(t) \/ InObjective(t)) => Survives(t)

C1_Witness ==
    /\ pc = "built"
    /\ \E t \in Triples : InZ(t) /\ InObjective(t)
    /\ \E t \in Triples :
          /\ DictHas(data.requests, <<t[1], t[2]>>)
          /\ Reachable(t[1], t[3])
          /\ SaveOf(t[1], t[3]) <= 0
          /\ ~InZ(t)
    /\ \E t \in Triples :
          /\ DictHas(data.requests, <<t[1], t[2]>>)
          /\ IndexOK(data.endpoints, t[1])
          /\ ~Reachable(t[1], t[3])
          /\ ~InZ(t)

(* the request list with records i and j (of one video and endpoint) made   *)
(* one record, at the place of i or of j                                    *)
Without(recs, j) == [k \in 1..(Len(recs) - 1) |-> IF k < j THEN recs[k] ELSE recs[k + 1]]

Unsplit(recs, i, j, at) ==
    LET one == <<recs[i][1], recs[i][2], recs[i][3] + recs[j][3]>>
    IN IF at = i THEN Without([recs EXCEPT ![i] = one], j)
                 ELSE Without([recs EXCEPT ![j] = one], i)

SplitPairs ==
    {p \in (1..Len(file.reqs)) \X (1..Len(file.reqs)) :
        /\ p[1] < p[2]
        /\ file.reqs[p[1]][1] = file.reqs[p[2]][1]
        /\ file.reqs[p[1]][2] = file.reqs[p[2]][2]}

ObjectiveMap(m) == {m.obj[i] : i \in 1..Len(m.obj)}

C8_Linking ==
    pc = "built" =>
        \A i \in 1..Len(model.zKeys) :
            LET k == model.zKeys[i]
                yk == <<k[2], k[3]>>
            IN /\ yk \in model.yKeys
               /\ \E j \in 1..Len(model.link) : model.link[j] = [z |-> k, y |-> yk]
               /\ \A a \in Assignments(model) :
                     (a.z[k] = 1 /\ a.y[yk] = 0) => ~Feasible(model, a)

C8_Witness ==
    /\ pc = "built"
    /\ \E i, j \in 1..Len(model.zKeys) : model.zKeys[i][3] # model.zKeys[j][3]
    /\ \E a \in Assignments(model) :
          /\ Feasible(model, a)
          /\ \E k \in ZKeySet(model) : a.z[k] = 1

SurvivingCaches(ev) == {k[3] : k \in {t \in ZKeySet(model) : <<t[1], t[2]>> = ev}}

ServedPairs == {<<k[1], k[2]>> : k \in ZKeySet(model)}

(* C9: the z keys are distinct; every (e,v) with a surviving z has exactly  *)
(* one single-source constraint, over exactly its surviving caches, each    *)
(* once; no other (e,v) has one; and no assignment satisfying the built     *)
(* constraints sets two z of one (e,v) to 1.                                *)
C9_SingleSource ==
    pc = "built" =>
        /\ \A i, j \in 1..Len(model.zKeys) : model.zKeys[i] = model.zKeys[j] => i = j
        /\ \A ev \in ServedPairs :
              Cardinality({i \in 1..Len(model.unique) : model.unique[i].ev = ev}) = 1
        /\ \A i \in 1..Len(model.unique) :
              LET u == model.unique[i]
              IN /\ u.ev \in ServedPairs
                 /\ {u.caches[j] : j \in 1..Len(u.caches)} = SurvivingCaches(u.ev)
                 /\ \A j, l \in 1..Len(u.caches) : u.caches[j] = u.caches[l] => j = l
        /\ \A a \in Assignments(model) :
              Feasible(model, a) =>
                 \A ev \in ServedPairs :
                    Cardinality({k \in ZKeySet(model) :
                                    <<k[1], k[2]>> = ev /\ a.z[k] = 1}) <= 1

C9_Witness ==
    /\ pc = "built"
    /\ \E i \in 1..Len(model.unique) : Len(model.unique[i].caches) = 2
    /\ Len(model.unique) = 2
    /\ \E a \in Assignments(model) :
          /\ Feasible(model, a)
          /\ \E k \in ZKeySet(model) : a.z[k] = 1

RequestCount(k) == DictGet(data.requests, <<k[1], k[2]>>, 0)

(* C10 as stated: every z of the built model belongs to an (e,v) of         *)
(* strictly positive aggregated count and has a strictly positive           *)
(* objective coefficient.                                                   *)
C10_PositiveOnly ==
    pc = "built" =>
        \A i \in 1..Len(model.obj) :
            RequestCount(model.obj[i][2]) > 0 /\ model.obj[i][1] > 0

(* C10, amended: every (e,v) of requests, whatever the sign of its count,   *)
(* gets a z for each reachable cache with save > 0; the coefficient is      *)
(* n_req * save, and it is strictly positive exactly when n_req is.         *)
C10_GainOfEveryPair ==
    pc = "built" =>
        /\ \A t \in Triples :
              (DictHas(data.requests, <<t[1], t[2]>>) /\ Survives(t)) =>
                  InZ(t) /\ InObjective(t)
        /\ \A i \in 1..Len(model.obj) :
              LET k == model.obj[i][2]
                  g == model.obj[i][1]
              IN /\ DictHas(data.requests, <<k[1], k[2]>>)
                 /\ g = RequestCount(k) * SaveOf(k[1], k[3])
                 /\ (g > 0 <=> RequestCount(k) > 0)

C10_Witness ==
    /\ pc = "built"
    /\ \E i \in 1..Len(model.obj) : model.obj[i][1] < 0
    /\ \E i \in 1..Len(model.obj) :
          model.obj[i][1] > 0 /\ SaveOf(model.obj[i][2][1], model.obj[i][2][3]) = 2

(***************************************************************************)
(* Properties of the pipeline of main (Spec).                               *)
(***************************************************************************)
OutOfRange(f) ==
    \/ \E i \in 1..Len(f.eps) : \E j \in 1..Len(f.eps[i].caches) :
          f.eps[i].caches[j][1] \notin 0..(f.C - 1)
    \/ \E i \in 1..Len(f.reqs) :
          \/ f.reqs[i][1] \notin 0..(f.V - 1)
          \/ f.reqs[i][2] \notin 0..(f.E - 1)

(* C3: a file with V = 0 or C = 0 (and every index in range) ends in the    *)
(* error EmptyModelError, never reaches optimize and writes no output file. *)
C3_Degenerate ==
    ((file.V = 0 \/ file.C = 0) /\ ~OutOfRange(file)) =>
        /\ pc \notin {"solved", "done"}
        /\ ~out.exists
        /\ pc = "error" => err = "EmptyModelError"

(* C4: a file with an endpoint, video or cache index out of range ends in   *)
(* the error MalformedInstanceError and no model is built from it.          *)
C4_OutOfRange ==
    OutOfRange(file) =>
        /\ pc \notin {"built", "exported", "solved", "done"}
        /\ pc = "error" => err = "MalformedInstanceError"

ModelBuilt == pc \in {"built", "exported", "solved", "done"}

SizeOf(v) == data.video_sizes[v + 1]

SumOver(S, F(_)) == SumSeq([i \in 1..Len(S) |-> F(S[i])])

(* C7: y has the whole of range(V) x range(C); each cache has one capacity  *)
(* constraint, over every video, with bound X; every assignment satisfying  *)
(* the built constraints keeps sum_v size(v) * y[v,c] <= X; and the videos  *)
(* listed for a cache in the output file have a total size of at most X.    *)
C7_Capacity ==
    /\ ModelBuilt =>
          /\ \A v \in 0..(data.V - 1), c \in 0..(data.C - 1) : <<v, c>> \in model.yKeys
          /\ Len(model.cap) = data.C
          /\ \A c \in 0..(data.C - 1) :
                \E i \in 1..Len(model.cap) :
                    /\ model.cap[i].cache = c
                    /\ model.cap[i].rhs = data.X
                    /\ Len(model.cap[i].terms) = data.V
                    /\ \A v \in 0..(data.V - 1) :
                          \E j \in 1..Len(model.cap[i].terms) :
                              model.cap[i].terms[j] = <<SizeOf(v), <<v, c>>>>
          /\ \A a \in Assignments(model) :
                Feasible(model, a) =>
                    \A c \in 0..(data.C - 1) :
                        LET Load(v) == SizeOf(v) * a.y[<<v, c>>]
                        IN SumOver(Range(data.V), Load) <= data.X
    /\ out.exists =>
          \A i \in 2..Len(out.lines) :
              SumOver(Tail(out.lines[i]), SizeOf) <= data.X

C7_Witness ==
    /\ pc = "done"
    /\ out.exists
    /\ data.video_sizes = <<2, 2>>
    /\ data.X = 2
    /\ Len(out.lines) = 3
    /\ \A i \in 2..Len(out.lines) : Len(out.lines[i]) = 2

(***************************************************************************)
(* Properties of write_solution (SpecExtract).                              *)
(***************************************************************************)
Above(c) == {v \in 0..(data.V - 1) : yX[<<v, c>>] > Threshold}

(* C5: the first line of the output is the number of lines that follow;     *)
(* cache c has a line iff some y[v,c] > 0.5; the line of c lists exactly    *)
(* the videos v with y[v,c] > 0.5, in strictly ascending order; a cache has *)
(* at most one line and a cache without such a video has none.              *)
C5_Extraction ==
    out.exists =>
        LET L == out.lines
        IN /\ Len(L) >= 1
           /\ L[1] = <<Len(L) - 1>>
           /\ \A c \in 0..(data.C - 1) :
                 (Above(c) # {}) <=> (\E i \in 2..Len(L) : L[i][1] = c)
           /\ \A i, j \in 2..Len(L) : L[i][1] = L[j][1] => i = j
           /\ \A i \in 2..Len(L) :
                 /\ Len(L[i]) >= 2
                 /\ L[i][1] \in 0..(data.C - 1)
                 /\ {L[i][j] : j \in 2..Len(L[i])} = Above(L[i][1])
                 /\ \A j \in 2..(Len(L[i]) - 1) : L[i][j] < L[i][j + 1]

C5_Witness ==
    /\ out.exists
    /\ data.V = 2
    /\ data.C = 2
    /\ yX[<<0, 0>>] > 5
    /\ yX[<<1, 0>>] > 5
    /\ yX[<<0, 1>>] = 5
    /\ yX[<<1, 1>>] < 5
    /\ out.lines = <<<<1>>, <<0, 0, 1>>>>

====
